---- MODULE Spec2Model ----
(***************************************************************************)
(* drogue-http-client: the request builder, the request serializer and the *)
(* push-driven response state machine of src/con.rs, with the Handler      *)
(* callbacks they make and the Sink they write to.                         *)
(*                                                                         *)
(* A byte is a one-character string; a byte slice is a sequence of them.   *)
(***************************************************************************)
EXTENDS Integers, Sequences, FiniteSets, TLC

VARIABLES
    pc,               \* "connection" | "builder" | "request" | "panicked"
    connection,       \* HttpConnection: [inbound]
    builder,          \* RequestBuilder: [method, path, headers, payload-free]
    state,            \* Request.state
    processed_bytes,  \* Request.processed_bytes
    handler,          \* the Request's ResponseHandler, as the calls it received
    sink,             \* the Sink: the slices offered to send and the bytes it took
    sent,             \* what the last execute_with was asked to send, and its outcome
    wire,             \* the response bytes the transport will deliver, and how far
    fresh,            \* the same request replayed on HttpConnection::new()
    nreq,             \* requests executed on this connection so far
    pump,             \* Source::pipe_data: where it is, what it read and returned
    probe             \* a header list and the state push_header chose for it

vars == <<pc, connection, builder, state, processed_bytes, handler, sink, sent,
          wire, fresh, nreq, pump, probe>>

-----------------------------------------------------------------------------
(* Bounds of the model.                                                    *)

\* capacity IN of HttpConnection<IN>.inbound
InCap == 39
\* capacity OUT of the Vec<u8, OUT> that send_request serializes into
OutCap == 52
\* requests run one after another on the same connection
MaxRequests == 2
\* push_close calls per request
MaxClose == 1
\* zero-length push_data calls per request
MaxEmpty == 1

\* capacity N of the payload of a BufferResponseHandler<N>
PayloadCap == 2

\* calls made to a handler that is driven by hand
MaxCalls == 4

-----------------------------------------------------------------------------
(* Bytes.                                                                  *)

CR == "\r"
LF == "\n"
SP == " "
HT == "\t"

Digits == <<"0", "1", "2", "3", "4", "5", "6", "7", "8", "9">>
Upper  == <<"A","B","C","D","E","F","G","H","I","J","K","L","M",
            "N","O","P","Q","R","S","T","U","V","W","X","Y","Z">>
Lower  == <<"a","b","c","d","e","f","g","h","i","j","k","l","m",
            "n","o","p","q","r","s","t","u","v","w","x","y","z">>

Range(s) == {s[i] : i \in 1..Len(s)}

DigitBytes == Range(Digits)
UpperBytes == Range(Upper)
LowerBytes == Range(Lower)

IsDigit(b) == b \in DigitBytes

DigitValue(b) == CHOOSE d \in 0..9 : Digits[d + 1] = b

\* u8::to_ascii_lowercase
ToAsciiLower(b) ==
    IF b \in UpperBytes THEN Lower[CHOOSE i \in 1..26 : Upper[i] = b] ELSE b

\* str::eq_ignore_ascii_case
EqIgnoreAsciiCase(a, b) ==
    /\ Len(a) = Len(b)
    /\ \A i \in 1..Len(a) : ToAsciiLower(a[i]) = ToAsciiLower(b[i])

\* the slice s[from..] of Rust, from counted from 0
SliceFrom(s, from) == SubSeq(s, from + 1, Len(s))

\* the slice s[0..to] of Rust
SliceTo(s, to) == SubSeq(s, 1, to)

RECURSIVE Concat(_)
Concat(ss) == IF ss = <<>> THEN <<>> ELSE Head(ss) \o Concat(Tail(ss))

\* "{}" of a usize: its decimal digits
RECURSIVE FormatUsize(_)
FormatUsize(n) ==
    IF n < 10 THEN <<Digits[n + 1]>>
    ELSE FormatUsize(n \div 10) \o <<Digits[(n % 10) + 1]>>

RECURSIVE DigitsValue(_, _)
DigitsValue(s, acc) ==
    IF s = <<>> THEN acc ELSE DigitsValue(Tail(s), acc * 10 + DigitValue(Head(s)))

\* str::parse::<usize>: an optional '+', then one or more decimal digits
\* usize::MAX, 2^64 - 1, in decimal
UsizeMaxDigits ==
    <<"1","8","4","4","6","7","4","4","0","7","3","7","0","9","5","5","1","6","1","5">>

\* the digits without their leading zeros
RECURSIVE Significant(_)
Significant(d) ==
    IF d # <<>> /\ Head(d) = "0" THEN Significant(Tail(d)) ELSE d

\* a run of digits is a number above usize::MAX
ExceedsUsize(d) ==
    LET n == Significant(d)
        max == UsizeMaxDigits
    IN  \/ Len(n) > Len(max)
        \/ /\ Len(n) = Len(max)
           /\ \E i \in 1..Len(n) :
                 /\ DigitValue(n[i]) > DigitValue(max[i])
                 /\ \A j \in 1..(i - 1) : n[j] = max[j]

ParseUsize(s) ==
    LET d == IF s # <<>> /\ Head(s) = "+" THEN Tail(s) ELSE s
    IN  IF d # <<>> /\ (\A i \in 1..Len(d) : IsDigit(d[i])) /\ ~ExceedsUsize(d)
        THEN [ok |-> TRUE, value |-> DigitsValue(d, 0)]
        ELSE [ok |-> FALSE, value |-> 0]

-----------------------------------------------------------------------------
(* httparse::Response::parse, as push_header uses it: the status line and  *)
(* the header block at the start of buf.  Positions count the bytes        *)
(* already consumed.                                                       *)

\* the header slots push_header hands to the parser
MaxHeaders == 16

\* length of the buffer that pipe_data reads into
ReadBufferLen == 512

Partial == [kind |-> "Partial", len |-> 0, version |-> 0, code |-> 0,
            reason |-> <<>>, headers |-> <<>>]

ParseError == [kind |-> "Error", len |-> 0, version |-> 0, code |-> 0,
               reason |-> <<>>, headers |-> <<>>]

HeaderNameBytes == UpperBytes \cup LowerBytes \cup DigitBytes \cup {"-", "+", "."}

IsHeaderNameToken(b) == b \in HeaderNameBytes

\* also the bytes a reason phrase may hold
IsHeaderValueToken(b) == b \notin {CR, LF}

\* leading empty lines are skipped: the position after them, -1 when the
\* bytes end first, -2 on a CR that no LF follows
RECURSIVE SkipEmptyLines(_, _)
SkipEmptyLines(buf, p) ==
    IF p >= Len(buf) THEN -1
    ELSE IF buf[p + 1] = CR
         THEN IF p + 1 >= Len(buf) THEN -1
              ELSE IF buf[p + 2] = LF THEN SkipEmptyLines(buf, p + 2) ELSE -2
    ELSE IF buf[p + 1] = LF THEN SkipEmptyLines(buf, p + 1)
    ELSE p

\* the position of the line terminator of the line that starts at q, -1 when
\* the bytes end first, -2 on a byte no line may hold
RECURSIVE LineEnd(_, _)
LineEnd(buf, q) ==
    IF q >= Len(buf) THEN -1
    ELSE IF buf[q + 1] = CR
         THEN IF q + 1 >= Len(buf) THEN -1
              ELSE IF buf[q + 2] = LF THEN q ELSE -2
    ELSE IF buf[q + 1] = LF THEN q
    ELSE IF ~IsHeaderValueToken(buf[q + 1]) THEN -2
    ELSE LineEnd(buf, q + 1)

AfterLine(buf, e) == IF buf[e + 1] = CR THEN e + 2 ELSE e + 1

\* the position of the colon that ends the header name starting at q
RECURSIVE NameEnd(_, _)
NameEnd(buf, q) ==
    IF q >= Len(buf) THEN -1
    ELSE IF buf[q + 1] = ":" THEN q
    ELSE IF ~IsHeaderNameToken(buf[q + 1]) THEN -2
    ELSE NameEnd(buf, q + 1)

\* the white space between the colon and the value is skipped
RECURSIVE ValueStart(_, _)
ValueStart(buf, q) ==
    IF q >= Len(buf) THEN -1
    ELSE IF buf[q + 1] \in {SP, HT} THEN ValueStart(buf, q + 1)
    ELSE q

RECURSIVE ParseHeaders(_, _, _, _)
ParseHeaders(buf, p, hs, status) ==
    IF p >= Len(buf) THEN Partial
    ELSE IF buf[p + 1] = CR
         THEN IF p + 1 >= Len(buf) THEN Partial
              ELSE IF buf[p + 2] = LF
                   THEN [status EXCEPT !.kind = "Complete", !.len = p + 2,
                                       !.headers = hs]
                   ELSE ParseError
    ELSE IF buf[p + 1] = LF
         THEN [status EXCEPT !.kind = "Complete", !.len = p + 1, !.headers = hs]
    ELSE IF ~IsHeaderNameToken(buf[p + 1]) THEN ParseError
    ELSE IF Len(hs) >= MaxHeaders THEN ParseError
    ELSE LET colon == NameEnd(buf, p + 1)
         IN  IF colon = -1 THEN Partial
             ELSE IF colon = -2 THEN ParseError
             ELSE LET from == ValueStart(buf, colon + 1)
                  IN  IF from = -1 THEN Partial
                      ELSE LET e == LineEnd(buf, from)
                           IN  IF e = -1 THEN Partial
                               ELSE IF e = -2 THEN ParseError
                               ELSE ParseHeaders(buf, AfterLine(buf, e),
                                        Append(hs,
                                            [name  |-> SubSeq(buf, p + 1, colon),
                                             value |-> SubSeq(buf, from + 1, e)]),
                                        status)

\* the status line from the status code on; p is the position of the code
ParseStatus(buf, p, version) ==
    LET avail == Len(buf) - p
        bad(i) == avail >= i /\ ~IsDigit(buf[p + i])
        code  == DigitValue(buf[p + 1]) * 100 + DigitValue(buf[p + 2]) * 10
                 + DigitValue(buf[p + 3])
        status(reason) == [kind |-> "Status", len |-> 0, version |-> version,
                           code |-> code, reason |-> reason, headers |-> <<>>]
    IN  IF bad(1) THEN ParseError
        ELSE IF avail < 1 THEN Partial
        ELSE IF bad(2) THEN ParseError
        ELSE IF avail < 2 THEN Partial
        ELSE IF bad(3) THEN ParseError
        ELSE IF avail < 3 THEN Partial
        ELSE IF avail < 4 THEN Partial
        ELSE IF buf[p + 4] = SP
             THEN LET e == LineEnd(buf, p + 4)
                  IN  IF e = -1 THEN Partial
                      ELSE IF e = -2 THEN ParseError
                      ELSE ParseHeaders(buf, AfterLine(buf, e), <<>>,
                                        status(SubSeq(buf, p + 5, e)))
        ELSE IF buf[p + 4] = CR
             THEN IF avail < 5 THEN Partial
                  ELSE IF buf[p + 5] = LF
                       THEN ParseHeaders(buf, p + 5, <<>>, status(<<>>))
                       ELSE ParseError
        ELSE IF buf[p + 4] = LF
             THEN ParseHeaders(buf, p + 4, <<>>, status(<<>>))
        ELSE ParseError

HttpVersionPrefix == <<"H", "T", "T", "P", "/", "1", ".">>

\* httparse::Response::parse(buf)
ParseResponse(buf) ==
    LET p == SkipEmptyLines(buf, 0)
    IN  IF p = -1 THEN Partial
        ELSE IF p = -2 THEN ParseError
        ELSE IF Len(buf) - p < 8 THEN Partial
        ELSE IF SubSeq(buf, p + 1, p + 7) # HttpVersionPrefix THEN ParseError
        ELSE IF buf[p + 8] \notin {"0", "1"} THEN ParseError
        ELSE IF Len(buf) - p < 9 THEN Partial
        ELSE IF buf[p + 9] # SP THEN ParseError
        ELSE ParseStatus(buf, p + 9, DigitValue(buf[p + 8]))

-----------------------------------------------------------------------------
(* Option and Result values.                                               *)

None == [some |-> FALSE]
Some(x) == [some |-> TRUE, value |-> x]

\* Result<Option<&[u8]>, ()>, the argument of push and of more_payload
OkSome(bytes) == [kind |-> "Some", bytes |-> bytes]
OkNone == [kind |-> "None", bytes |-> <<>>]
Err == [kind |-> "Err", bytes |-> <<>>]

-----------------------------------------------------------------------------
(* heapless::Vec<u8, N>                                                    *)

\* Vec::extend_from_slice: all of the slice, or nothing when it does not fit
ExtendFits(v, cap, other) == Len(v) + Len(other) =< cap

ExtendFromSlice(v, cap, other) == IF ExtendFits(v, cap, other) THEN v \o other ELSE v

-----------------------------------------------------------------------------
(* ResponseHandler: the handler a Request owns is kept as the calls made   *)
(* to it, in order.                                                        *)

NoOpResponseHandler == [kind |-> "NoOp", calls |-> <<>>]

\* BufferResponseHandler::new()
BufferResponseHandler ==
    [kind |-> "Buffer", calls |-> <<>>, version |-> 0, code |-> 0, reason |-> None,
     payload |-> <<>>, complete |-> FALSE]

\* ResponseHandler::response
HandlerResponse(h, version, code, reason) ==
    LET called == [h EXCEPT !.calls = Append(@, [op |-> "response", version |-> version,
                                                code |-> code, reason |-> reason])]
    IN  IF h.kind = "Buffer"
        THEN [called EXCEPT !.version = version, !.code = code, !.reason = Some(reason)]
        ELSE called

\* BufferResponseHandler::more_payload where an error is the end of the
\* response
HandlerMorePayloadErrCompletes(h, payload) ==
    LET called == [h EXCEPT !.calls = Append(@, [op |-> "more_payload",
                                                payload |-> payload])]
    IN  IF h.kind = "Buffer"
        THEN CASE payload.kind = "Some" ->
                    [called EXCEPT !.payload = ExtendFromSlice(@, PayloadCap, payload.bytes)]
               [] OTHER -> [called EXCEPT !.complete = TRUE]
        ELSE called

\* ResponseHandler::more_payload
HandlerMorePayload(h, payload) ==
    LET called == [h EXCEPT !.calls = Append(@, [op |-> "more_payload",
                                                payload |-> payload])]
    IN  IF h.kind = "Buffer"
        THEN CASE payload.kind = "Some" ->
                    [called EXCEPT !.payload = ExtendFromSlice(@, PayloadCap, payload.bytes)]
               [] payload.kind = "None" -> [called EXCEPT !.complete = TRUE]
               [] OTHER -> called
        ELSE called

\* BufferResponseHandler::is_complete, code, version, reason, payload
BufferIsComplete(h) == h.complete
BufferCode(h) == h.code
BufferVersion(h) == h.version
BufferReason(h) == IF h.reason.some THEN h.reason.value ELSE <<>>
BufferPayload(h) == h.payload

-----------------------------------------------------------------------------
(* State and Request.  A request is the record                             *)
(*   [inbound, handler, state, processed_bytes, panicked, overflowed]      *)
(* where inbound is connection.inbound and panicked says that the          *)
(* operation aborted in an arithmetic overflow or a slice index.           *)

StateHeader == [tag |-> "Header", size |-> 0]
StatePayload(size) == [tag |-> "Payload", size |-> size]
StateComplete == [tag |-> "Complete", size |-> 0]
StateUnlimitedPayload == [tag |-> "UnlimitedPayload", size |-> 0]

NewRequest(inbound, h) ==
    [inbound |-> inbound, handler |-> h, state |-> StateHeader,
     processed_bytes |-> 0, panicked |-> FALSE, overflowed |-> FALSE]

\* Request::is_complete
IsComplete(st) == st.tag = "Complete"

ContentLengthName ==
    <<"c","o","n","t","e","n","t","-","l","e","n","g","t","h">>

\* the first header named content-length in exactly that case
FindContentLengthExact(headers) ==
    LET hit == {i \in 1..Len(headers) : headers[i].name = ContentLengthName}
    IN  IF hit = {} THEN None
        ELSE Some(headers[CHOOSE i \in hit : \A j \in hit : i =< j])

\* push_header: the first header named content-length, any case
FindContentLength(headers) ==
    LET hit == {i \in 1..Len(headers) :
                    EqIgnoreAsciiCase(headers[i].name, ContentLengthName)}
    IN  IF hit = {} THEN None
        ELSE Some(headers[CHOOSE i \in hit : \A j \in hit : i =< j])

\* push_header: "eval next state"
NextState(headers) ==
    LET content_size == FindContentLength(headers)
    IN  IF content_size.some
        THEN LET size == ParseUsize(content_size.value.value)
             IN  IF size.ok THEN StatePayload(size.value) ELSE StateUnlimitedPayload
        ELSE StateUnlimitedPayload

\* Request::push_payload
PushPayload(r, data) ==
    [r EXCEPT !.handler = HandlerMorePayload(@, data)]

\* Request::push_complete_payload; HttpConnection::closed changes nothing
PushCompletePayload(r, data) ==
    IF data.kind = "Some"
    THEN [r EXCEPT !.inbound = ExtendFromSlice(@, InCap, data.bytes)]
    ELSE r

\* push_sized_payload that passes on the whole of the fragment that completes
\* the body
PushSizedPayloadWhole(r, expected_bytes, data) ==
    IF data.kind = "Some"
    THEN LET len == Len(data.bytes)
             rem == expected_bytes - r.processed_bytes
         IN  IF expected_bytes < r.processed_bytes
             THEN [r EXCEPT !.panicked = TRUE]
             ELSE IF len >= rem
             THEN [r EXCEPT
                     !.handler = HandlerMorePayload(HandlerMorePayload(@, data), OkNone),
                     !.state = StateComplete]
             ELSE [r EXCEPT
                     !.handler = HandlerMorePayload(@, data),
                     !.processed_bytes = @ + len]
    ELSE r

\* push_sized_payload that passes the sentinel before the last data
PushSizedPayloadSentinelFirst(r, expected_bytes, data) ==
    IF data.kind = "Some"
    THEN LET len == Len(data.bytes)
             rem == expected_bytes - r.processed_bytes
         IN  IF expected_bytes < r.processed_bytes
             THEN [r EXCEPT !.panicked = TRUE]
             ELSE IF len >= rem
             THEN [r EXCEPT
                     !.handler = HandlerMorePayload(
                                     HandlerMorePayload(@, OkNone),
                                     OkSome(SliceTo(data.bytes, rem))),
                     !.state = StateComplete]
             ELSE [r EXCEPT
                     !.handler = HandlerMorePayload(@, data),
                     !.processed_bytes = @ + len]
    ELSE r

\* push_sized_payload that ends the body only with a byte beyond it
PushSizedPayloadStrict(r, expected_bytes, data) ==
    IF data.kind = "Some"
    THEN LET len == Len(data.bytes)
             rem == expected_bytes - r.processed_bytes
         IN  IF expected_bytes < r.processed_bytes
             THEN [r EXCEPT !.panicked = TRUE]
             ELSE IF len > rem
             THEN [r EXCEPT
                     !.handler = HandlerMorePayload(
                                     HandlerMorePayload(@, OkSome(SliceTo(data.bytes, rem))),
                                     OkNone),
                     !.state = StateComplete]
             ELSE [r EXCEPT
                     !.handler = HandlerMorePayload(@, data),
                     !.processed_bytes = @ + len]
    ELSE r

\* push_sized_payload that ends the body when the peer closes
PushSizedPayloadCloseCompletes(r, expected_bytes, data) ==
    IF data.kind = "Some"
    THEN LET len == Len(data.bytes)
             rem == expected_bytes - r.processed_bytes
         IN  IF expected_bytes < r.processed_bytes
             THEN [r EXCEPT !.panicked = TRUE]
             ELSE IF len >= rem
             THEN [r EXCEPT
                     !.handler = HandlerMorePayload(
                                     HandlerMorePayload(@, OkSome(SliceTo(data.bytes, rem))),
                                     OkNone),
                     !.state = StateComplete]
             ELSE [r EXCEPT
                     !.handler = HandlerMorePayload(@, data),
                     !.processed_bytes = @ + len]
    ELSE IF data.kind = "None"
    THEN [r EXCEPT !.handler = HandlerMorePayload(@, OkNone),
                   !.state = StateComplete]
    ELSE r

\* Request::push_sized_payload
PushSizedPayload(r, expected_bytes, data) ==
    IF data.kind = "Some"
    THEN LET len == Len(data.bytes)
             rem == expected_bytes - r.processed_bytes
         IN  IF expected_bytes < r.processed_bytes
             THEN [r EXCEPT !.panicked = TRUE]
             ELSE IF len >= rem
             THEN [r EXCEPT
                     !.handler = HandlerMorePayload(
                                     HandlerMorePayload(@, OkSome(SliceTo(data.bytes, rem))),
                                     OkNone),
                     !.state = StateComplete]
             ELSE [r EXCEPT
                     !.handler = HandlerMorePayload(@, data),
                     !.processed_bytes = @ + len]
    ELSE r

\* Request::push, called by push_header on the bytes after the header block:
\* the state is the one push_header has just set
PushBody(r, data) ==
    CASE r.state.tag = "Payload" -> PushSizedPayload(r, r.state.size, data)
      [] r.state.tag = "UnlimitedPayload" -> PushPayload(r, data)
      [] r.state.tag = "Complete" -> PushCompletePayload(r, data)
      [] OTHER -> r

\* push_header without the clear() of the scratch buffer that ends it
PushHeaderKeepInbound(r, data) ==
    IF data.kind = "Some"
    THEN LET inbound == ExtendFromSlice(r.inbound, InCap, data.bytes)
             response == ParseResponse(inbound)
         IN  IF response.kind = "Complete"
             THEN LET len == response.len
                      buffer_len == Len(inbound)
                      data_len == Len(data.bytes)
                      told == [r EXCEPT
                                 !.inbound = inbound,
                                 !.state = NextState(response.headers),
                                 !.handler = HandlerResponse(@, response.version,
                                                 response.code, response.reason)]
                      start == len - (buffer_len - data_len)
                  IN  IF start < 0 \/ start > data_len
                      THEN [told EXCEPT !.panicked = TRUE]
                      ELSE PushBody([told EXCEPT !.overflowed = buffer_len < data_len],
                                    OkSome(SliceFrom(data.bytes, start)))
             ELSE [r EXCEPT !.inbound = inbound]
    ELSE r

\* push_header that empties the scratch buffer when the parser rejects it
PushHeaderDropsRejected(r, data) ==
    IF data.kind = "Some"
    THEN LET inbound == ExtendFromSlice(r.inbound, InCap, data.bytes)
             response == ParseResponse(inbound)
         IN  IF response.kind = "Complete"
             THEN LET len == response.len
                      buffer_len == Len(inbound)
                      data_len == Len(data.bytes)
                      told == [r EXCEPT
                                 !.inbound = inbound,
                                 !.state = NextState(response.headers),
                                 !.handler = HandlerResponse(@, response.version,
                                                 response.code, response.reason)]
                      start == len - (buffer_len - data_len)
                  IN  IF start < 0 \/ start > data_len
                      THEN [told EXCEPT !.panicked = TRUE]
                      ELSE LET pushed == PushBody([told EXCEPT !.overflowed =
                                                      buffer_len < data_len],
                                                  OkSome(SliceFrom(data.bytes, start)))
                           IN  IF pushed.panicked THEN pushed
                               ELSE [pushed EXCEPT !.inbound = <<>>]
             ELSE IF response.kind = "Error" THEN [r EXCEPT !.inbound = <<>>]
             ELSE [r EXCEPT !.inbound = inbound]
    ELSE r

\* Request::push_header.  start is a usize: len - (buffer_len - data_len)
\* computed modulo 2^64 is the integer start when that is not negative, and a
\* number far beyond data_len when it is, where &data[start..] panics in
\* every build.  When buffer_len < data_len the inner subtraction overflows:
\* a build with overflow checks panics there, one without carries on with
\* start; the result is marked overflowed for the caller to take either way.
PushHeader(r, data) ==
    IF data.kind = "Some"
    THEN LET inbound == ExtendFromSlice(r.inbound, InCap, data.bytes)
             response == ParseResponse(inbound)
         IN  IF response.kind = "Complete"
             THEN LET len == response.len
                      buffer_len == Len(inbound)
                      data_len == Len(data.bytes)
                      told == [r EXCEPT
                                 !.inbound = inbound,
                                 !.state = NextState(response.headers),
                                 !.handler = HandlerResponse(@, response.version,
                                                 response.code, response.reason)]
                      start == len - (buffer_len - data_len)
                  IN  IF start < 0 \/ start > data_len
                      THEN [told EXCEPT !.panicked = TRUE]
                      ELSE LET pushed == PushBody([told EXCEPT !.overflowed =
                                                      buffer_len < data_len],
                                                  OkSome(SliceFrom(data.bytes, start)))
                           IN  IF pushed.panicked THEN pushed
                               ELSE [pushed EXCEPT !.inbound = <<>>]
             ELSE [r EXCEPT !.inbound = inbound]
    ELSE r

\* Request::push
Push(r, data) ==
    CASE r.state.tag = "Header" -> PushHeader(r, data)
      [] r.state.tag = "Payload" -> PushSizedPayload(r, r.state.size, data)
      [] r.state.tag = "UnlimitedPayload" -> PushPayload(r, data)
      [] r.state.tag = "Complete" -> PushCompletePayload(r, data)

-----------------------------------------------------------------------------
(* Sink and send_request.                                                  *)

\* Sink::send, with the answer the sink gives: "all" is Ok(data.len()),
\* "part" is Ok(data.len() - 1), "err" is Err(())
SinkSend(s, data, answer) ==
    LET took == CASE answer = "all" -> data
                  [] answer = "part" -> SliceTo(data, Len(data) - 1)
                  [] answer = "err" -> <<>>
    IN  [sink |-> [offered |-> Append(s.offered, data),
                   accepted |-> s.accepted \o took],
         ok |-> answer # "err"]

\* write!(w, ..) into a Vec<u8, OUT>: one write_str per piece, stopping at the
\* first piece that does not fit
RECURSIVE WriteFmt(_, _)
WriteFmt(w, pieces) ==
    IF ~w.ok \/ pieces = <<>> THEN w
    ELSE IF ExtendFits(w.buf, OutCap, Head(pieces))
         THEN WriteFmt([w EXCEPT !.buf = @ \o Head(pieces)], Tail(pieces))
         ELSE [w EXCEPT !.ok = FALSE]

HttpVersionLine == <<SP, "H", "T", "T", "P", "/", "1", ".", "1", CR, LF>>

ContentLengthHeader ==
    <<"C","o","n","t","e","n","t","-","L","e","n","g","t","h">>

RECURSIVE WriteHeaders(_, _)
WriteHeaders(w, headers) ==
    IF headers = <<>> THEN w
    ELSE WriteHeaders(
             WriteFmt(w, <<Head(headers)[1], <<":", SP>>, Head(headers)[2], <<CR, LF>>>>),
             Tail(headers))

\* create_request_headers with Content-Length written after the caller's
\* headers
CreateRequestHeadersLengthLast(w, method, path, headers, content_length) ==
    LET line == WriteFmt(w, <<method, <<SP>>, path, HttpVersionLine>>)
        listed == IF headers.some THEN WriteHeaders(line, headers.value) ELSE line
        length == IF headers.some /\ content_length.some
                  THEN WriteFmt(listed, <<ContentLengthHeader, <<":", SP>>,
                                          FormatUsize(content_length.value), <<CR, LF>>>>)
                  ELSE listed
    IN  WriteFmt(length, <<<<CR, LF>>>>)

\* create_request_headers with the blank line written only after headers
CreateRequestHeadersBlankAfterHeaders(w, method, path, headers, content_length) ==
    LET line == WriteFmt(w, <<method, <<SP>>, path, HttpVersionLine>>)
        length == IF headers.some /\ content_length.some
                  THEN WriteFmt(line, <<ContentLengthHeader, <<":", SP>>,
                                        FormatUsize(content_length.value), <<CR, LF>>>>)
                  ELSE line
    IN  IF headers.some
        THEN WriteFmt(WriteHeaders(length, headers.value), <<<<CR, LF>>>>)
        ELSE length

\* HttpConnection::create_request_headers
CreateRequestHeaders(w, method, path, headers, content_length) ==
    LET line == WriteFmt(w, <<method, <<SP>>, path, HttpVersionLine>>)
        length == IF headers.some /\ content_length.some
                  THEN WriteFmt(line, <<ContentLengthHeader, <<":", SP>>,
                                        FormatUsize(content_length.value), <<CR, LF>>>>)
                  ELSE line
        listed == IF headers.some THEN WriteHeaders(length, headers.value) ELSE length
    IN  WriteFmt(listed, <<<<CR, LF>>>>)

EmptySink == [offered |-> <<>>, accepted |-> <<>>]

\* send_request that offers the payload whatever became of the header block
SendRequestOffersPayloadAnyway(s, method, path, headers, payload, a1, a2) ==
    LET out == CreateRequestHeaders([ok |-> TRUE, buf |-> <<>>], method, path, headers,
                   IF payload.some THEN Some(Len(payload.value)) ELSE None)
    IN  IF ~out.ok THEN [sink |-> s, ok |-> FALSE]
        ELSE LET head == SinkSend(s, out.buf, a1)
             IN  IF ~payload.some THEN head
                 ELSE LET body == SinkSend(head.sink, payload.value, a2)
                      IN  [sink |-> body.sink, ok |-> head.ok /\ body.ok]

\* HttpConnection::send_request; a1 and a2 are the sink's answers to the two
\* sends
SendRequest(s, method, path, headers, payload, a1, a2) ==
    LET out == CreateRequestHeaders([ok |-> TRUE, buf |-> <<>>], method, path, headers,
                   IF payload.some THEN Some(Len(payload.value)) ELSE None)
    IN  IF ~out.ok THEN [sink |-> s, ok |-> FALSE]
        ELSE LET head == SinkSend(s, out.buf, a1)
             IN  IF ~head.ok \/ ~payload.some THEN head
                 ELSE SinkSend(head.sink, payload.value, a2)

-----------------------------------------------------------------------------
(* Inputs.                                                                 *)

GET == <<"G", "E", "T">>
POST == <<"P", "O", "S", "T">>
Methods == {GET, POST}

Paths == {<<"/">>}

HeaderA == <<<<"A">>, <<"b">>>>
HeaderC == <<<<"C">>, <<"d">>>>
\* ("Content-Type", "text/json")
HeaderType == <<<<"C","o","n","t","e","n","t","-","T","y","p","e">>,
                <<"t","e","x","t","/","j","s","o","n">>>>
HeaderLists == {<<>>, <<HeaderA>>, <<HeaderA, HeaderC>>, <<HeaderC, HeaderA>>,
                <<HeaderType>>}

Payloads == {<<>>, <<"x", "y">>, <<"0","1","2","3","4","5","6","7","8","9">>}

SinkAnswers == {"all", "part", "err"}

\* "HTTP/1.1 200 OK\r\n\r\nabc": no Content-Length, body abc
ResponseClose ==
    <<"H","T","T","P","/","1",".","1",SP,"2","0","0",SP,"O","K",CR,LF,CR,LF,
      "a","b","c">>

\* "HTTP/1.1 200 OK\r\nContent-Length: 2\r\n\r\nabc": body ab, then a byte more
ResponseSized ==
    <<"H","T","T","P","/","1",".","1",SP,"2","0","0",SP,"O","K",CR,LF,"C",
      "o","n","t","e","n","t","-","L","e","n","g","t","h",":",SP,"2",CR,LF,
      CR,LF,"a","b","c">>

\* "HTTP/1.0 404\ncontent-length:0\n\nx": an empty body, then a byte more
ResponseEmpty ==
    <<"H","T","T","P","/","1",".","0",SP,"4","0","4",LF,"c","o","n","t","e",
      "n","t","-","l","e","n","g","t","h",":","0",LF,LF,"x">>

\* "HTTP/2 200 OK\r\n\r\nab": rejected by the parser
ResponseBadVersion ==
    <<"H","T","T","P","/","2",SP,"2","0","0",SP,"O","K",CR,LF,CR,LF,"a",
      "b">>

\* "HTTP/1.1 200 OK\r\nContent-Length: x\r\n\r\nab": a length that is no number
ResponseBadLength ==
    <<"H","T","T","P","/","1",".","1",SP,"2","0","0",SP,"O","K",CR,LF,"C",
      "o","n","t","e","n","t","-","L","e","n","g","t","h",":",SP,"x",CR,LF,
      CR,LF,"a","b">>

\* "HTTP/1.1 204\ncontent-length:0\n\n" and, behind it on the same transport,
\* "HTTP/1.1 200\n\nab": two responses, the second read while the first
\* request is still the one being pushed to
ResponsePipelined ==
    <<"H","T","T","P","/","1",".","1",SP,"2","0","4",LF,"c","o","n","t","e",
      "n","t","-","l","e","n","g","t","h",":","0",LF,LF,
      "H","T","T","P","/","1",".","1",SP,"2","0","0",LF,LF,"a","b">>

\* "HTTP/1.1 204\ncontent-length:0\n\n" and 41 bytes that the transport
\* delivers behind it
ResponseTrailing ==
    <<"H","T","T","P","/","1",".","1",SP,"2","0","4",LF,"c","o","n","t","e","n","t","-","l","e","n","g","t","h",":","0",LF,LF>>
    \o [i \in 1..41 |-> "z"]

\* the responses by name
Responses == {"Close", "Sized", "Empty", "BadVersion", "BadLength"}

ResponseBytes(name) ==
    CASE name = "Close" -> ResponseClose
      [] name = "Sized" -> ResponseSized
      [] name = "Empty" -> ResponseEmpty
      [] name = "BadVersion" -> ResponseBadVersion
      [] name = "BadLength" -> ResponseBadLength
      [] name = "Pipelined" -> ResponsePipelined
      [] name = "Trailing" -> ResponseTrailing
      [] OTHER -> <<>>

-----------------------------------------------------------------------------
(* The program.                                                            *)

NoBuilder == [method |-> <<>>, path |-> <<>>, headers |-> None]

NothingSent == [method |-> <<>>, path |-> <<>>, headers |-> None, payload |-> None,
                ok |-> FALSE]

\* what the caller and the transport have done to the request so far:
\*   response  the response the transport delivers
\*   pos       the bytes of it handed to push_data so far
\*   closes    the push_close calls
\*   reopened  push_data was called after a push_close
\*   empties   the push_data calls with no bytes
\*   late      the bytes handed to push_data when the request was complete
\*   clean     no request run before on this connection was handed late bytes
NoWire == [response |-> "", pos |-> 0, closes |-> 0, reopened |-> FALSE,
           empties |-> 0, late |-> 0, clean |-> TRUE]

\* Source::pipe_data is not running:
\*   at       "idle" | "loop" (at the loop condition) | "push" (a read returned)
\*   result   what the last call returned: "none" | "Ok" | "Err"
\*   buffer   the bytes &buffer[0..len] of the read that returned
\*   rpos     the bytes of the response the transport has handed to reads
\*   blocked  the last read would block
NoPump == [at |-> "idle", result |-> "none", buffer |-> <<>>, rpos |-> 0,
           blocked |-> FALSE]

\* no header list was given
NoProbe == [headers |-> <<>>, next |-> None]

\* the bytes the transport delivers for the request
Stream == ResponseBytes(wire.response)

\* the Request in its record form
Self == [inbound |-> connection.inbound, handler |-> handler, state |-> state,
         processed_bytes |-> processed_bytes, panicked |-> FALSE,
         overflowed |-> FALSE]

\* HttpConnection::new
Init ==
    /\ pc = "connection"
    /\ connection = [inbound |-> <<>>]
    /\ builder = NoBuilder
    /\ state = StateHeader
    /\ processed_bytes = 0
    /\ handler = NoOpResponseHandler
    /\ sink = EmptySink
    /\ sent = NothingSent
    /\ wire = NoWire
    /\ fresh = NewRequest(<<>>, NoOpResponseHandler)
    /\ nreq = 0
    /\ pump = NoPump
    /\ probe = NoProbe

\* the caller runs a further request on the connection that complete()
\* returned, when the request before it was complete
MayBegin ==
    /\ pc = "connection"
    /\ nreq < MaxRequests
    /\ nreq > 0 => IsComplete(state)

\* HttpConnection::begin
Begin(methods) ==
    /\ MayBegin
    /\ \E method \in methods, path \in Paths :
          builder' = [method |-> method, path |-> path, headers |-> None]
    /\ handler' = NoOpResponseHandler
    /\ pc' = "builder"
    /\ UNCHANGED <<connection, state, processed_bytes, sink, sent, wire, fresh, nreq,
                   pump, probe>>

\* HttpConnection::post
Post ==
    /\ MayBegin
    /\ \E path \in Paths :
          builder' = [method |-> POST, path |-> path, headers |-> None]
    /\ handler' = NoOpResponseHandler
    /\ pc' = "builder"
    /\ UNCHANGED <<connection, state, processed_bytes, sink, sent, wire, fresh, nreq,
                   pump, probe>>

\* RequestBuilder::headers
Headers(lists) ==
    /\ pc = "builder"
    /\ \E headers \in lists : builder' = [builder EXCEPT !.headers = Some(headers)]
    /\ UNCHANGED <<pc, connection, state, processed_bytes, handler, sink, sent, wire,
                   fresh, nreq,
                   pump, probe>>

\* RequestBuilder::handler, given a BufferResponseHandler::new()
Handler ==
    /\ pc = "builder"
    /\ handler' = BufferResponseHandler
    /\ UNCHANGED <<pc, connection, builder, state, processed_bytes, sink, sent, wire,
                   fresh, nreq,
                   pump, probe>>

\* the request after an operation that left it as the record r
Becomes(r) ==
    /\ connection' = [inbound |-> r.inbound]
    /\ handler' = r.handler
    /\ state' = r.state
    /\ processed_bytes' = r.processed_bytes
    /\ pc' \in IF r.panicked THEN {"panicked"}
               ELSE IF r.overflowed THEN {"panicked", "request"}
               ELSE {"request"}

\* RequestBuilder::execute_with, and RequestBuilder::execute when payload is
\* None; the sink handed in is empty, and the transport will deliver the
\* bytes of one of responses
ExecuteWith(payloads, answers, responses) ==
    /\ pc = "builder"
    /\ \E payload \in payloads, a1 \in answers, a2 \in answers :
          LET done == SendRequest(EmptySink, builder.method, builder.path,
                                  builder.headers, payload, a1, a2)
          IN  /\ sink' = done.sink
              /\ sent' = [method |-> builder.method, path |-> builder.path,
                          headers |-> builder.headers, payload |-> payload,
                          ok |-> done.ok]
    /\ Becomes(NewRequest(connection.inbound, handler))
    /\ \E name \in responses :
          wire' = [NoWire EXCEPT !.response = name,
                                 !.clean = wire.clean /\ wire.late = 0]
    /\ fresh' = NewRequest(<<>>, handler)
    /\ builder' = NoBuilder
    /\ nreq' = nreq + 1
    /\ UNCHANGED <<pump, probe>>

\* the same push made to the request replayed on a new connection; pushed is
\* what the push made of the request itself
Replay(pushed, data) ==
    IF fresh.panicked THEN fresh
    ELSE IF fresh = Self THEN pushed
    ELSE Push(fresh, data)

\* Request::push_data(bytes), the bytes being the next ones of the transport
PushBytes(bytes) ==
    LET data == OkSome(bytes)
        n == Len(bytes)
        pushed == Push(Self, data)
    IN  /\ Becomes(pushed)
        /\ fresh' = Replay(pushed, data)
        /\ wire' = [wire EXCEPT !.pos = @ + n,
                                !.empties = IF n = 0 THEN @ + 1 ELSE @,
                                !.reopened = wire.closes > 0,
                                !.late = IF IsComplete(state) THEN @ + n ELSE @]

\* Request::push_data, called by the owner of the request
PushData ==
    /\ pc = "request"
    /\ \E n \in 0..(Len(Stream) - wire.pos) :
          /\ n = 0 => wire.empties < MaxEmpty
          /\ PushBytes(SubSeq(Stream, wire.pos + 1, wire.pos + n))
    /\ UNCHANGED <<builder, sink, sent, nreq, pump, probe>>

\* Request::push_close
PushClose ==
    /\ pc = "request"
    /\ wire.closes < MaxClose
    /\ Becomes(Push(Self, OkNone))
    /\ fresh' = Replay(Push(Self, OkNone), OkNone)
    /\ wire' = [wire EXCEPT !.closes = @ + 1]
    /\ UNCHANGED <<builder, sink, sent, nreq,
                   pump, probe>>

\* Request::complete: the connection and the handler go back to the caller
Complete ==
    /\ pc = "request"
    /\ pc' = "connection"
    /\ wire' = [NoWire EXCEPT !.late = wire.late, !.clean = wire.clean]
    /\ fresh' = NewRequest(<<>>, NoOpResponseHandler)
    /\ UNCHANGED <<connection, builder, state, processed_bytes, handler, sink, sent,
                   nreq,
                   pump, probe>>

Next ==
    \/ Post
    \/ Handler
    \/ ExecuteWith({None}, {"all"}, Responses)
    \/ PushData
    \/ PushClose
    \/ Complete

Spec == Init /\ [][Next]_vars

\* the builder and execute_with alone, over all the inputs
NextSend ==
    \/ Begin(Methods)
    \/ Post
    \/ Headers(HeaderLists)
    \/ Handler
    \/ ExecuteWith({None} \cup {Some(p) : p \in Payloads}, SinkAnswers, {"Close"})

SpecSend == Init /\ [][NextSend]_vars

\* Source::pipe_data is called on the request
PipeData ==
    /\ pc = "request"
    /\ pump.at = "idle"
    /\ pump' = [pump EXCEPT !.at = "loop", !.result = "none", !.blocked = FALSE]
    /\ UNCHANGED <<pc, connection, builder, state, processed_bytes, handler, sink,
                   sent, wire, fresh, nreq, probe>>

\* pipe_data: the loop condition fails, Ok(()) is returned
PipeReturn ==
    /\ pump.at = "loop"
    /\ IsComplete(state)
    /\ pump' = [pump EXCEPT !.at = "idle", !.result = "Ok", !.blocked = FALSE]
    /\ UNCHANGED <<pc, connection, builder, state, processed_bytes, handler, sink,
                   sent, wire, fresh, nreq, probe>>

\* the outcomes of self.stack.read(self.socket, &mut buffer): Ok(len) with
\* the next len bytes of the response in the buffer, and a fatal error
PipeReadLen ==
    \E len \in 0..Len(Stream) - pump.rpos :
       /\ len =< ReadBufferLen
       /\ len = 0 => wire.empties < MaxEmpty
       /\ pump' = [pump EXCEPT !.at = "push",
                               !.buffer = SubSeq(Stream, pump.rpos + 1, pump.rpos + len),
                               !.rpos = @ + len,
                               !.blocked = FALSE]

PipeReadFatal ==
    pump' = [pump EXCEPT !.at = "idle", !.result = "Err", !.blocked = FALSE]

\* pipe_data where a read that would block ends the loop
PipeReadReturnsOnBlock ==
    /\ pump.at = "loop"
    /\ ~IsComplete(state)
    /\ \/ PipeReadLen
       \/ pump' = [pump EXCEPT !.at = "idle", !.result = "Ok", !.blocked = TRUE]
       \/ PipeReadFatal
    /\ UNCHANGED <<pc, connection, builder, state, processed_bytes, handler, sink,
                   sent, wire, fresh, nreq, probe>>

\* pipe_data: the loop condition holds and the transport is read
PipeRead ==
    /\ pump.at = "loop"
    /\ ~IsComplete(state)
    /\ \/ PipeReadLen
       \/ pump' = [pump EXCEPT !.blocked = TRUE]
       \/ PipeReadFatal
    /\ UNCHANGED <<pc, connection, builder, state, processed_bytes, handler, sink,
                   sent, wire, fresh, nreq, probe>>

\* pipe_data that takes a read of no bytes for the close of the peer
PipePushClosesOnEmpty ==
    /\ pump.at = "push"
    /\ IF pump.buffer = <<>>
       THEN /\ Becomes(Push(Self, OkNone))
            /\ fresh' = Replay(Push(Self, OkNone), OkNone)
            /\ wire' = [wire EXCEPT !.closes = @ + 1, !.empties = @ + 1]
       ELSE PushBytes(pump.buffer)
    /\ pump' = [pump EXCEPT !.at = "loop", !.buffer = <<>>]
    /\ UNCHANGED <<builder, sink, sent, nreq, probe>>

\* pipe_data: request.push_data(&buffer[0..len])
PipePush ==
    /\ pump.at = "push"
    /\ PushBytes(pump.buffer)
    /\ pump' = [pump EXCEPT !.at = "loop", !.buffer = <<>>]
    /\ UNCHANGED <<builder, sink, sent, nreq, probe>>

\* a request whose response is pumped in by pipe_data
NextPump ==
    \/ Post
    \/ ExecuteWith({None}, {"all"}, {"Close", "Sized", "Empty"})
    \/ PipeData
    \/ PipeRead
    \/ PipePush
    \/ PipeReturn

SpecPump == Init /\ [][NextPump]_vars

\* a read of pipe_data that returns bytes
PipeReadData ==
    /\ PipeRead
    /\ pump'.at = "push"
    /\ pump'.buffer # <<>>

\* pipe_data on a transport that delivers the bytes of the response: a read
\* returns bytes after finitely many that would block or return none, as long
\* as there are bytes; the loop returns when its condition fails; and
\* push_data returns, which is weak fairness of PipePush, enabled exactly when
\* pump.at = "push" and leaving it, written as the states it makes recur
SpecPumpDelivers ==
    /\ Init
    /\ [][NextPump]_vars
    /\ WF_vars(PipeReadData)
    /\ WF_vars(PipeReturn)
    /\ []<>(pump.at # "push")

\* header names and values for the choice of the next state
FramingNames ==
    {<<"C","o","n","t","e","n","t","-","L","e","n","g","t","h">>,
     <<"c","o","n","t","e","n","t","-","l","e","n","g","t","h">>,
     <<"C","O","N","T","E","N","T","-","L","E","N","G","T","H">>,
     <<"C","o","n","t","e","n","t","-","L","e","n","g","t">>,
     <<"T","r","a","n","s","f","e","r","-","E","n","c","o","d","i","n","g">>,
     <<"X">>}

FramingValues ==
    {<<"2">>,
     <<"1","0">>,
     <<"0">>,
     <<"+","5">>,
     <<"0","0","7">>,
     <<"x">>,
     <<>>,
     <<"-","1">>,
     <<"2",SP>>,
     <<"1","x">>,
     <<"c","h","u","n","k","e","d">>,
     <<"1","8","4","4","6","7","4","4","0","7","3","7","0","9","5","5","1","6","1","5","0">>}

FramingHeaders == {[name |-> n, value |-> v] : n \in FramingNames, v \in FramingValues}

\* the header lists: none, one and two headers
FramingHeaderLists ==
    {<<>>} \cup {<<h>> : h \in FramingHeaders}
           \cup {<<h, g>> : h \in FramingHeaders, g \in FramingHeaders}

\* push_header has parsed a header block with one of the header lists
InitFraming ==
    /\ pc = "framing"
    /\ connection = [inbound |-> <<>>]
    /\ builder = NoBuilder
    /\ state = StateHeader
    /\ processed_bytes = 0
    /\ handler = NoOpResponseHandler
    /\ sink = EmptySink
    /\ sent = NothingSent
    /\ wire = NoWire
    /\ fresh = NewRequest(<<>>, NoOpResponseHandler)
    /\ nreq = 0
    /\ pump = NoPump
    /\ probe \in {[headers |-> hs, next |-> None] : hs \in FramingHeaderLists}

\* push_header: "eval next state"
EvalNextState ==
    /\ pc = "framing"
    /\ ~probe.next.some
    /\ probe' = [probe EXCEPT !.next = Some(NextState(probe.headers))]
    /\ UNCHANGED <<pc, connection, builder, state, processed_bytes, handler, sink,
                   sent, wire, fresh, nreq, pump>>

NextFraming ==
    EvalNextState

SpecFraming == InitFraming /\ [][NextFraming]_vars

\* a BufferResponseHandler::new() in the hands of a caller who makes the
\* calls of a ResponseHandler to it
InitHandler ==
    /\ pc = "handler"
    /\ connection = [inbound |-> <<>>]
    /\ builder = NoBuilder
    /\ state = StateHeader
    /\ processed_bytes = 0
    /\ handler = BufferResponseHandler
    /\ sink = EmptySink
    /\ sent = NothingSent
    /\ wire = NoWire
    /\ fresh = NewRequest(<<>>, NoOpResponseHandler)
    /\ nreq = 0
    /\ pump = NoPump
    /\ probe = NoProbe

\* the responses and the payloads of those calls
Statuses ==
    {<<1, 200, <<"O", "K">>>>, <<0, 404, <<>>>>, <<1, 204, <<"N", "o">>>>}

Fragments == {<<>>, <<"a">>, <<"b", "c">>}

\* BufferResponseHandler::response
CallResponse ==
    /\ pc = "handler"
    /\ Len(handler.calls) < MaxCalls
    /\ \E status \in Statuses :
          handler' = HandlerResponse(handler, status[1], status[2], status[3])
    /\ UNCHANGED <<pc, connection, builder, state, processed_bytes, sink, sent, wire,
                   fresh, nreq,
                   pump, probe>>

\* BufferResponseHandler::more_payload
CallMorePayload ==
    /\ pc = "handler"
    /\ Len(handler.calls) < MaxCalls
    /\ \E payload \in {OkSome(data) : data \in Fragments} \cup {OkNone, Err} :
          handler' = HandlerMorePayload(handler, payload)
    /\ UNCHANGED <<pc, connection, builder, state, processed_bytes, sink, sent, wire,
                   fresh, nreq,
                   pump, probe>>

NextHandler ==
    \/ CallResponse
    \/ CallMorePayload

SpecHandler == InitHandler /\ [][NextHandler]_vars

\* a request that is pushed more bytes than its response has
NextTrailing ==
    \/ Post
    \/ ExecuteWith({None}, {"all"}, {"Trailing"})
    \/ PushData
    \/ PushClose

SpecTrailing == Init /\ [][NextTrailing]_vars

\* the request on a connection that complete() returned is pushed one
\* fragment
OneFragmentAfterReuse ==
    nreq > 1 => (wire.pos = 0 /\ wire.empties = 0)

\* Request::push_data of that one fragment
PushDataOnce ==
    OneFragmentAfterReuse /\ PushData

\* requests on one connection whose transport delivers the next response
\* early
NextPipelined ==
    \/ Post
    \/ ExecuteWith({None}, {"all"}, {"Pipelined"})
    \/ PushDataOnce
    \/ PushClose
    \/ Complete

SpecPipelined == Init /\ [][NextPipelined]_vars

-----------------------------------------------------------------------------
(* What the handler was told.                                              *)

IsStatus(c) == c.op = "response"
IsData(c) == c.op = "more_payload" /\ c.payload.kind = "Some"
IsSentinel(c) == c.op = "more_payload" /\ c.payload.kind = "None"

\* the response() calls, in order
StatusCalls(h) == SelectSeq(h.calls, IsStatus)

\* the bytes of the data passed to more_payload, in order
Body(h) ==
    LET data == SelectSeq(h.calls, IsData)
    IN  Concat([i \in 1..Len(data) |-> data[i].payload.bytes])

\* how often more_payload(Ok(None)) was called
Sentinels(h) == Len(SelectSeq(h.calls, IsSentinel))

Observed(h) == [status |-> StatusCalls(h), body |-> Body(h), sentinels |-> Sentinels(h)]

\* the status line and header block of the response on the wire
WireHead == ParseResponse(Stream)
WellFormed == WireHead.kind = "Complete"
HeadLen == WireHead.len
Framing == NextState(WireHead.headers)

\* the bytes of the response that follow its header block, up to position to
WireBody(to) == SubSeq(Stream, HeadLen + 1, to)

\* the first request on a new connection is running
FirstRequest == pc = "request" /\ nreq = 1

\* at most one push_close was made, after all the data
ClosedLast == wire.closes =< 1 /\ ~wire.reopened

-----------------------------------------------------------------------------
(* C1 *)

\* the bytes pushed so far, pushed to a new request as one fragment, with the
\* same push_close after it
OneFragment ==
    LET begun == NewRequest(<<>>, IF handler.kind = "Buffer"
                                  THEN BufferResponseHandler
                                  ELSE NoOpResponseHandler)
        pushed == Push(begun, OkSome(SliceTo(Stream, wire.pos)))
    IN  IF wire.closes > 0 THEN Push(pushed, OkNone) ELSE pushed

\* C1: when the header block of the response fits the scratch buffer, the
\* handler observes the same status, the same body bytes and as many sentinels
\* however the bytes pushed so far were split into fragments: the same as when
\* they are pushed as one fragment.
C1_FragmentationIndependence ==
    (FirstRequest /\ WellFormed /\ HeadLen =< InCap /\ ClosedLast)
        => Observed(handler) = Observed(OneFragment.handler)

-----------------------------------------------------------------------------
(* C2 *)

\* C2: for a response with Content-Length: N, is_complete() is false while
\* fewer than N body bytes are pushed, and once the N-th body byte is pushed it
\* is true and the data passed to more_payload is those N bytes.
C2_LengthFramedCompletion ==
    (FirstRequest /\ WellFormed /\ Framing.tag = "Payload")
        => /\ wire.pos < HeadLen + Framing.size => ~IsComplete(state)
           /\ wire.pos = HeadLen + Framing.size
                => /\ IsComplete(state)
                   /\ Body(handler) = WireBody(HeadLen + Framing.size)

-----------------------------------------------------------------------------
(* C3 *)

-----------------------------------------------------------------------------
(* C4, C5, C6 *)

\* the decimal text of the payload lengths of Payloads
DecimalText(n) ==
    CASE n = 0 -> <<"0">>
      [] n = 2 -> <<"2">>
      [] n = 10 -> <<"1", "0">>

\* the request line, the Content-Length header when length is given, the
\* headers in order, and the blank line
ExpectedHead(method, path, headers, length) ==
    method \o <<SP>> \o path \o <<SP,"H","T","T","P","/","1",".","1",CR,LF>>
    \o (IF length.some
        THEN <<"C","o","n","t","e","n","t","-","L","e","n","g","t","h",":",SP>>
             \o DecimalText(length.value) \o <<CR, LF>>
        ELSE <<>>)
    \o Concat([i \in 1..Len(headers) |->
                  headers[i][1] \o <<":", SP>> \o headers[i][2] \o <<CR, LF>>])
    \o <<CR, LF>>

\* the bytes handed to the sink, in order
Received == Concat(sink.offered)

\* send_request has returned Ok
Sent == pc = "request" /\ sent.ok

\* C4: a request executed with header list H and a payload of L bytes hands
\* the sink the request line, Content-Length: L, the headers of H in order, the
\* blank line and the L payload bytes, and nothing else.
C4_SerializedWithPayload ==
    (Sent /\ sent.headers.some /\ sent.payload.some)
        => Received = ExpectedHead(sent.method, sent.path, sent.headers.value,
                                   Some(Len(sent.payload.value)))
                      \o sent.payload.value

C4_Witness ==
    /\ Sent
    /\ sent.headers = Some(<<HeaderA, HeaderC>>)
    /\ sent.payload.some
    /\ Len(sent.payload.value) = 10

\* C5: a request executed without payload hands the sink the request line,
\* the headers in order when headers were given, and the blank line: the
\* request line and the blank line alone when headers() was not called or was
\* given the empty list; no Content-Length.
C5_SerializedWithoutPayload ==
    (Sent /\ ~sent.payload.some)
        => Received = ExpectedHead(sent.method, sent.path,
                                   IF sent.headers.some THEN sent.headers.value ELSE <<>>,
                                   None)

C5_Witness ==
    /\ Sent
    /\ ~sent.payload.some
    /\ ~sent.headers.some
    /\ Len(sink.offered) = 1

\* C6: the bytes handed to the sink hold Content-Length: L exactly when a
\* payload of L bytes was given, whether or not headers() was called, and no
\* header but that one and the caller's.
C6_ContentLengthIffPayload ==
    Sent => Received = ExpectedHead(sent.method, sent.path,
                                    IF sent.headers.some THEN sent.headers.value ELSE <<>>,
                                    IF sent.payload.some
                                    THEN Some(Len(sent.payload.value)) ELSE None)
                       \o (IF sent.payload.some THEN sent.payload.value ELSE <<>>)

-----------------------------------------------------------------------------
(* C7, C8, C9 *)

\* C7: response() is called at most once, no more_payload call is made before
\* it, and when the header block of the response fits the scratch buffer it is
\* called in the push whose fragment completes the header block: it has been
\* called exactly when the bytes pushed so far hold the whole header block.
C7_StatusOnceAndFirst ==
    /\ Len(StatusCalls(handler)) =< 1
    /\ handler.calls # <<>> => IsStatus(handler.calls[1])
    /\ (FirstRequest /\ WellFormed /\ HeadLen =< InCap)
          => (Len(StatusCalls(handler)) = 1 <=> wire.pos >= HeadLen)

\* C8: the handler gets at most one sentinel, and after the sentinel no
\* more_payload call that carries bytes.
C8_CallbackOrder ==
    /\ Sentinels(handler) =< 1
    /\ \A i, j \in 1..Len(handler.calls) :
          (/\ IsSentinel(handler.calls[i])
           /\ IsData(handler.calls[j])
           /\ handler.calls[j].payload.bytes # <<>>) => j < i

\* C9: a push_close made in the UnlimitedPayload state leaves the request
\* complete.
C9_CloseTerminates ==
    [][(pc = "request" /\ state.tag = "UnlimitedPayload"
          /\ wire'.closes = wire.closes + 1)
        => IsComplete(state')]_vars

-----------------------------------------------------------------------------
(* C10 *)

\* the handler of the request was told what the handler of the same request
\* on a new connection was told, and the two requests are in the same state
SameAsFresh ==
    /\ Observed(handler) = Observed(fresh.handler)
    /\ state = fresh.state
    /\ ~fresh.panicked

-----------------------------------------------------------------------------
(* C11 *)

-----------------------------------------------------------------------------
(* C12 *)

\* C12: no operation aborts: the offset of the remaining bytes in push_header
\* does not underflow and stays within the fragment, and the count of missing
\* bytes in push_sized_payload does not underflow.
C12_NeverPanics ==
    pc # "panicked"

-----------------------------------------------------------------------------
(* C13 *)

\* the body bytes that the handler is due when the first to bytes of the
\* response were pushed: those behind the header block, up to the declared
\* length when there is one
BodyDue(to) ==
    IF Framing.tag = "Payload" /\ to > HeadLen + Framing.size
    THEN WireBody(HeadLen + Framing.size)
    ELSE WireBody(to)

\* the push_data that hands over the last byte of the header block
BoundaryPush ==
    /\ FirstRequest
    /\ WellFormed
    /\ HeadLen =< InCap
    /\ wire.pos < HeadLen
    /\ wire'.pos >= HeadLen

\* C13: when the fragment that completes the header block has been pushed,
\* the handler has been passed exactly the bytes of that fragment that follow
\* the header block: none dropped, none twice, no header byte.
C13_NoByteLostAtBoundary ==
    [][BoundaryPush => Body(handler') = BodyDue(wire'.pos)]_vars

-----------------------------------------------------------------------------
(* C14 *)

\* C14: when execute_with has sent the request without a failure of the sink,
\* the sink has accepted every byte of the header block and of the payload
\* that it was offered.
C14_PartialAcceptanceLosesNothing ==
    Sent => sink.accepted = Received

-----------------------------------------------------------------------------
(* C15 *)

\* a push_data in the Header state of a fragment that does not fit the rest
\* of the scratch buffer
OverflowingPush ==
    /\ pc = "request"
    /\ state.tag = "Header"
    /\ wire'.pos > wire.pos
    /\ Len(connection.inbound) + (wire'.pos - wire.pos) > InCap

\* the request and what its caller and its handler can see of it
Visible == <<pc, connection, state, processed_bytes, handler>>

\* C15: a fragment that does not fit the scratch buffer does not leave the
\* request as it was, as if nothing had been pushed: the failure shows in the
\* request or at its handler.
C15_OverflowIsReported ==
    [][OverflowingPush => Visible' # Visible]_vars

-----------------------------------------------------------------------------
(* C16 *)

\* the last response() call made to the handler; none is version 0, code 0
\* and an empty reason
LastStatus(h) ==
    LET given == StatusCalls(h)
    IN  IF given = <<>>
        THEN [version |-> 0, code |-> 0, reason |-> <<>>]
        ELSE [version |-> given[Len(given)].version,
              code |-> given[Len(given)].code,
              reason |-> given[Len(given)].reason]

-----------------------------------------------------------------------------
(* C17 *)

\* what holds of pipe_data wherever it is: Ok only returned of a complete
\* request and Err only of an incomplete one, nothing read that was not
\* pushed when the loop condition is tested, and one read, of an incomplete
\* request, waiting to be pushed otherwise
PumpContract ==
    /\ pump.result = "Ok" => IsComplete(state)
    /\ pump.result = "Err" => ~IsComplete(state)
    /\ pump.at = "loop" => (pump.buffer = <<>> /\ pump.rpos = wire.pos)
    /\ pump.at = "push"
         => /\ ~IsComplete(state)
            /\ pump.rpos = wire.pos + Len(pump.buffer)
            /\ pump.buffer = SubSeq(Stream, wire.pos + 1, pump.rpos)

\* C17: pipe_data returns Ok only of a complete request and Err only when a
\* read failed of an incomplete one; a read that would block pushes nothing
\* and leaves pipe_data in its loop; the bytes of every read are pushed by one
\* push_data before the next read; and of a complete request nothing is read.
C17_PumpContract ==
    [][/\ PumpContract'
       /\ (pump'.blocked /\ ~pump.blocked)
            => (Visible' = Visible /\ wire' = wire /\ pump'.at = "loop"
                /\ pump'.rpos = pump.rpos)
       /\ (pump.at = "push" /\ pump'.at = "loop" /\ pc' = "request")
            => (wire'.pos = pump.rpos
                /\ Self' = Push(Self, OkSome(pump.buffer)))
       /\ (pump.at = "loop" /\ IsComplete(state))
            => (pump'.at = "idle" /\ pump'.result = "Ok" /\ pump'.rpos = pump.rpos)
      ]_vars

C17_Witness ==
    /\ pc = "request"
    /\ pump.result = "Ok"
    /\ pump.at = "idle"
    /\ pump.rpos > HeadLen
    /\ Sentinels(handler) = 1

-----------------------------------------------------------------------------
(* C18 *)

\* C18: of a response that declares Content-Length: N the handler is passed
\* at most N body bytes, the first ones behind the header block, and N when
\* the request is complete; what the completing fragment holds beyond them is
\* not in the scratch buffer either.
C18_LengthBound ==
    (FirstRequest /\ WellFormed /\ Framing.tag = "Payload")
        => /\ Len(Body(handler)) =< Framing.size
           /\ Body(handler) = WireBody(HeadLen + Len(Body(handler)))
           /\ IsComplete(state) => Len(Body(handler)) = Framing.size
           /\ (IsComplete(state) /\ wire.late = 0) => connection.inbound = <<>>

C18_Witness ==
    /\ FirstRequest
    /\ Framing.tag = "Payload"
    /\ Framing.size > 0
    /\ IsComplete(state)
    /\ wire.pos > HeadLen + Framing.size
    /\ wire.late = 0

-----------------------------------------------------------------------------
(* C19 *)

\* the handler of a complete request was passed the status, the body of the
\* declared length, and the sentinel last
CompleteIsWhole ==
    (pc = "request" /\ IsComplete(state))
        => /\ Len(StatusCalls(handler)) = 1
           /\ IsStatus(handler.calls[1])
           /\ Sentinels(handler) = 1
           /\ IsSentinel(handler.calls[Len(handler.calls)])
           /\ (FirstRequest /\ WellFormed /\ Framing.tag = "Payload")
                => Body(handler) = WireBody(HeadLen + Framing.size)

\* C19: is_complete() is true only when the handler has received response(),
\* the body of the declared length and the sentinel; and the push that makes
\* it true makes the last data call and then the sentinel call, in that
\* order, behind the calls made before.
C19_CompletionAtomic ==
    /\ []CompleteIsWhole
    /\ [][(pc' = "request" /\ ~IsComplete(state) /\ IsComplete(state'))
            => LET last == Len(handler'.calls)
               IN  /\ last >= Len(handler.calls) + 2
                   /\ SubSeq(handler'.calls, 1, Len(handler.calls)) = handler.calls
                   /\ IsData(handler'.calls[last - 1])
                   /\ IsSentinel(handler'.calls[last])
         ]_vars

C19_Witness ==
    /\ FirstRequest
    /\ IsComplete(state)
    /\ Len(Body(handler)) = 2
    /\ Len(handler.calls) > 3

-----------------------------------------------------------------------------
(* C20 *)

\* the spellings of Content-Length among FramingNames
LengthNames ==
    {<<"C","o","n","t","e","n","t","-","L","e","n","g","t","h">>,
     <<"c","o","n","t","e","n","t","-","l","e","n","g","t","h">>,
     <<"C","O","N","T","E","N","T","-","L","E","N","G","T","H">>}

\* the values among FramingValues that are a length, and the length
DeclaredLength(v) ==
    CASE v = <<"2">> -> Some(2)
      [] v = <<"1","0">> -> Some(10)
      [] v = <<"0">> -> Some(0)
      [] v = <<"+","5">> -> Some(5)
      [] v = <<"0","0","7">> -> Some(7)
      [] OTHER -> None

\* the state the claim gives a header list
ExpectedFraming(headers) ==
    LET named == {i \in 1..Len(headers) : headers[i].name \in LengthNames}
    IN  IF named = {} THEN StateUnlimitedPayload
        ELSE LET first == CHOOSE i \in named : \A j \in named : i =< j
                 length == DeclaredLength(headers[first].value)
             IN  IF length.some THEN StatePayload(length.value)
                 ELSE StateUnlimitedPayload

\* C20: the state chosen for a header block is Payload(n) exactly when the
\* first header named Content-Length, in any case, has a value that is the
\* length n, and UnlimitedPayload otherwise; no other header changes it.
C20_FramingDecision ==
    probe.next.some => probe.next.value = ExpectedFraming(probe.headers)

C20_Witness ==
    /\ probe.next = Some(StatePayload(10))
    /\ Len(probe.headers) = 2
    /\ probe.headers[1].name = <<"T","r","a","n","s","f","e","r","-","E","n","c","o","d","i","n","g">>
    /\ probe.headers[2].name = <<"C","O","N","T","E","N","T","-","L","E","N","G","T","H">>

-----------------------------------------------------------------------------
(* C21 *)

\* C21: a push to a complete request leaves it complete and makes no call
\* to the handler; a push_data appends its fragment to the scratch buffer and
\* a push_close leaves the scratch buffer as it is.
C21_CompleteAbsorbs ==
    [][(pc = "request" /\ IsComplete(state) /\ pc' = "request")
        => /\ IsComplete(state')
           /\ handler' = handler
           /\ connection'.inbound
                = connection.inbound \o SubSeq(Stream, wire.pos + 1, wire'.pos)
      ]_vars
-----------------------------------------------------------------------------
(* C22 *)

\* the fragment of a push_data step
Fragment == SubSeq(Stream, wire.pos + 1, wire'.pos)

\* a step that is one push_data returning to its caller
PushDataStep ==
    /\ pc = "request"
    /\ pc' = "request"
    /\ wire'.pos > wire.pos \/ wire'.empties > wire.empties

\* the scratch buffer after push_header's append of the fragment
Accumulated == ExtendFromSlice(connection.inbound, InCap, Fragment)

\* C22: a push_data in the Header state whose accumulated bytes the parser
\* rejects, or finds to be only a part of a header block, returns with the
\* state still Header, the handler as it was, the counter as it was, and the
\* scratch buffer holding the accumulated bytes.
C22_NoTransitionOnErrorOrPartial ==
    [][(PushDataStep /\ state = StateHeader
          /\ ParseResponse(Accumulated).kind \in {"Error", "Partial"})
        => /\ state' = StateHeader
           /\ handler' = handler
           /\ processed_bytes' = processed_bytes
           /\ connection'.inbound = Accumulated
      ]_vars

\* the parser has rejected the bytes of the scratch buffer, which are all the
\* bytes pushed, and the request waits for a header block
C22_Witness ==
    /\ pc = "request"
    /\ state = StateHeader
    /\ handler.calls = <<>>
    /\ wire.pos > 0
    /\ connection.inbound = SubSeq(Stream, 1, wire.pos)
    /\ ParseResponse(connection.inbound).kind = "Error"
-----------------------------------------------------------------------------
(* C23 *)

\* C23: a push_close to a request in the Header state, or in the Payload
\* state (where body bytes are still owed), changes neither the state, the
\* counter, the scratch buffer nor the handler, and the request is not
\* complete after it.
C23_CloseIsNoOpBeforeBodyEnd ==
    [][(pc = "request" /\ state.tag \in {"Header", "Payload"}
          /\ wire'.closes = wire.closes + 1)
        => /\ Visible' = Visible
           /\ ~IsComplete(state')
           /\ Sentinels(handler') = 0
      ]_vars

\* the last push to a request with body bytes owed was a push_close
C23_Witness ==
    /\ pc = "request"
    /\ state.tag = "Payload"
    /\ processed_bytes > 0
    /\ wire.closes = 1
    /\ ~wire.reopened
    /\ Sentinels(handler) = 0
-----------------------------------------------------------------------------
(* C24 *)

\* the header block of the request sent: the request line, Content-Length
\* where send_request writes it, the caller's headers and the blank line
HeaderBlock ==
    ExpectedHead(sent.method, sent.path,
                 IF sent.headers.some THEN sent.headers.value ELSE <<>>,
                 IF sent.headers.some /\ sent.payload.some
                 THEN Some(Len(sent.payload.value)) ELSE None)

\* what execute_with has left when it has returned
SendAborts ==
    pc = "request"
      => /\ state = StateHeader
         /\ processed_bytes = 0
         /\ handler.calls = <<>>
         /\ Len(HeaderBlock) > OutCap => (sink.offered = <<>> /\ ~sent.ok)
         /\ Len(sink.offered) =< 2
         /\ sink.offered # <<>> => sink.offered[1] = HeaderBlock
         /\ Len(sink.offered) = 2
               => (sent.payload.some /\ sink.offered[2] = sent.payload.value)
         /\ (sink.offered # <<>> /\ sink.accepted = <<>>)
               => (Len(sink.offered) = 1 /\ ~sent.ok)

\* C24: execute_with offers the sink the header block and then the payload
\* and stops at the first failure: nothing is offered when the header block
\* does not fit the OUT buffer, the payload is not offered when the sink has
\* rejected the header block; and it returns a request in the Header state
\* with a counter of zero, no handler call and the scratch buffer of the
\* connection as it was.
C24_SendFailureAbortsAndIsSwallowed ==
    [][(pc = "builder" /\ pc' = "request")
        => (SendAborts' /\ connection' = connection)]_vars

\* a request whose header block did not fit the OUT buffer
C24_Witness ==
    /\ pc = "request"
    /\ sent.payload.some
    /\ Len(HeaderBlock) > OutCap
    /\ sink.offered = <<>>
    /\ ~sent.ok
    /\ state = StateHeader
-----------------------------------------------------------------------------
(* C25 *)

\* C25: the payload of a BufferResponseHandler is never longer than its
\* capacity and is a prefix of the body bytes passed to more_payload so far.
C25_OverflowIsTruncation ==
    handler.kind = "Buffer"
      => /\ Len(BufferPayload(handler)) =< PayloadCap
         /\ BufferPayload(handler)
              = SubSeq(Body(handler), 1, Len(BufferPayload(handler)))
-----------------------------------------------------------------------------
(* C26 *)

\* C26: for a response that declares Content-Length: 0, the push_data that
\* hands over the last byte of the header block returns with the request
\* complete and the handler called with response() and then with the
\* sentinel, no body byte passed, whatever follows the header block in the
\* fragment.
C26_EmptyFixedLengthBody ==
    [][(BoundaryPush /\ Framing = StatePayload(0))
        => /\ IsComplete(state')
           /\ Len(StatusCalls(handler')) = 1
           /\ IsStatus(handler'.calls[1])
           /\ Sentinels(handler') = 1
           /\ IsSentinel(handler'.calls[Len(handler'.calls)])
           /\ Body(handler') = <<>>
      ]_vars
-----------------------------------------------------------------------------
(* C27 *)

\* C27: from one return of push_data or push_close to the next, a request in
\* the Payload(n) state stays there or becomes Complete, a request in the
\* UnlimitedPayload state or the Complete state stays there, so that no
\* request returns to the Header state, leaves Complete, changes n or moves
\* between Payload and UnlimitedPayload; and a request that a push returns in
\* the Payload(n) state has passed on fewer than n bytes.
C27_FramingStateMonotone ==
    [][(pc = "request" /\ pc' = "request")
        => /\ state'.tag \in {"Header", "Payload", "UnlimitedPayload", "Complete"}
           /\ state.tag = "Payload" => state' \in {state, StateComplete}
           /\ state.tag = "UnlimitedPayload" => state' = state
           /\ state.tag = "Complete" => state' = state
           /\ state'.tag = "Header" => state.tag = "Header"
           /\ state'.tag = "Payload"
                 => (0 =< processed_bytes' /\ processed_bytes' < state'.size)
      ]_vars

\* a request that went through Payload(n) to Complete and was pushed to
\* after that
C27_Witness ==
    /\ pc = "request"
    /\ state = StateComplete
    /\ Framing.tag = "Payload"
    /\ Framing.size > 0
    /\ processed_bytes > 0
    /\ wire.late > 0
    /\ wire.closes > 0
-----------------------------------------------------------------------------
(* C28 *)

\* pipe_data is in its loop for a response with a well-formed header block
\* that fits the scratch buffer and declares a length
PumpingSized ==
    /\ pump.at = "loop"
    /\ FirstRequest
    /\ WellFormed
    /\ HeadLen =< InCap
    /\ Framing.tag = "Payload"

\* C28: pipe_data, running on a transport that delivers the header block and
\* the declared body bytes of such a response, returns Ok with the sentinel
\* passed to the handler, unless a read has failed.
C28_PumpTerminates ==
    PumpingSized ~> \/ pump.result = "Ok" /\ Sentinels(handler) = 1
                    \/ pump.result = "Err"
-----------------------------------------------------------------------------
(* C29 *)

\* pipe_data has made no push_close, and of a request in the UnlimitedPayload
\* state it has not returned Ok, nor has the handler got the sentinel
NoCloseFromPump ==
    /\ wire.closes = 0
    /\ state.tag = "UnlimitedPayload"
          => /\ ~IsComplete(state)
             /\ Sentinels(handler) = 0
             /\ pump.result # "Ok"
    /\ (FirstRequest /\ WellFormed /\ Framing.tag = "UnlimitedPayload")
          => (~IsComplete(state) /\ pump.result # "Ok")

\* C29: pipe_data passes every read, a read of no bytes too, to push_data and
\* makes no push_close; a request in the UnlimitedPayload state stays there
\* and incomplete, its handler gets no sentinel, and pipe_data does not return
\* Ok: it ends by the error of a read.
C29_PumpNeverSignalsClosure ==
    /\ []NoCloseFromPump
    /\ [][/\ (pump.at = "push" /\ pump'.at = "loop" /\ pump.buffer = <<>>)
              => wire'.empties = wire.empties + 1
          /\ (state.tag = "UnlimitedPayload" /\ pc' = "request")
              => state'.tag = "UnlimitedPayload"
          /\ (state.tag = "UnlimitedPayload" /\ pump.at # "idle" /\ pump'.at = "idle")
              => pump'.result = "Err"
         ]_vars

\* pipe_data has read the whole of a response without a length, a read of no
\* bytes too, and has ended with the error of a read
C29_Witness ==
    /\ pc = "request"
    /\ state.tag = "UnlimitedPayload"
    /\ wire.pos = Len(Stream)
    /\ wire.empties > 0
    /\ Body(handler) = WireBody(Len(Stream))
    /\ pump.at = "idle"
    /\ pump.result = "Err"

====
